---- MODULE Spec2Model ----
(***************************************************************************)
(* Model of three constructs of the library:                               *)
(*   - StepScalingPolicy: derivation of the lower and upper alarm and of   *)
(*     their step-adjustment tables from a list of scaling intervals;      *)
(*   - QueueRef: lazy creation of the queue policy by addToResourcePolicy; *)
(*   - Resource: path-part validation and the resource tree that           *)
(*     newResource builds below a RestApi.                                 *)
(* Each construct has its own specification over the shared variables.     *)
(***************************************************************************)
EXTENDS Integers, Sequences, FiniteSets, TLC

VARIABLES
    \* StepScalingPolicy
    phase,          \* "new" before the constructor ran, then "constructed" or "failed"
    props,          \* the props the constructor was called with
    error,          \* the configuration error thrown, "" when none
    calls,          \* collaborators invoked by the constructor, in order
    intervals,      \* the constructor's local: the normalized intervals
    alarms,         \* the constructor's local: the result of findAlarmThresholds
    lowerAlarm, lowerAction, upperAlarm, upperAction,
    \* QueueRef
    policy,         \* policy[q]: the queue's QueuePolicy (its statements), or None
    policiesCreated,\* policiesCreated[q]: number of QueuePolicy objects constructed
    notifyingBuckets,
    keyStatements,  \* keyStatements[q]: statements added to the queue's key policy
    passed,         \* passed[q]: statements handed to addToResourcePolicy, in order
    \* RestApi / Resource
    resources,      \* the Resource constructs created so far, in creation order
    cfnResources,   \* the cloudformation.Resource objects created, in creation order
    deployment,     \* deployment[api]: the api's latestDeployment, or None
    lastCall        \* the last newResource call and its outcome

policyVars == <<phase, props, error, calls, intervals, alarms, lowerAlarm, lowerAction, upperAlarm, upperAction>>
queueVars  == <<policy, policiesCreated, notifyingBuckets, keyStatements, passed>>
apiVars    == <<resources, cfnResources, deployment, lastCall>>
vars       == <<policyVars, queueVars, apiVars>>

(***************************************************************************)
(* Optional values.  An absent object is None, a present one Some(x).  An  *)
(* optional number is a tagged record, so that undefined, NaN and 0 are    *)
(* three different values as they are in the source language.              *)
(***************************************************************************)
None == <<>>
Some(x) == <<x>>

Undefined == [k |-> "undefined", v |-> 0]
NaN == [k |-> "NaN", v |-> 0]
Num(n) == [k |-> "number", v |-> n]
IsNum(x) == x.k = "number"

\* a - b on optional numbers: arithmetic on undefined or NaN yields NaN
Minus(a, b) == IF IsNum(a) /\ IsNum(b) THEN Num(a.v - b.v) ELSE NaN

\* intervals[i] with the source's 0-based index
At(s, i) == s[i + 1]

-----------------------------------------------------------------------------
(* Bounds of the model and input domains *)

MaxSteps == 3

\* metric values used as interval boundaries, and capacity changes
BoundValues == {0, 10, 50}
FewBoundValues == {10, 50}
Changes == {-1, 0, 1}

Statistics == {"Average", "Minimum", "Maximum", "p99"}
Periods == {60, 300}
AdjustmentTypes == {"", "ChangeInCapacity", "ExactCapacity"}

OptBounds(values) == {Undefined} \cup {Num(n) : n \in values}

\* a ScalingInterval names at least one of its bounds, and lower < upper when
\* it names both
ScalingIntervals(values) ==
    {s \in [lower : OptBounds(values), upper : OptBounds(values), change : Changes] :
        /\ IsNum(s.lower) \/ IsNum(s.upper)
        /\ (IsNum(s.lower) /\ IsNum(s.upper)) => s.lower.v < s.upper.v}

Metric(statistic, periodSec) == [statistic |-> statistic, periodSec |-> periodSec]

\* input domains of the two specifications of the policy: all interval lists
\* with two metrics, and all metrics with the interval lists over two values
AllSteps == ScalingIntervals(BoundValues)
FewSteps == ScalingIntervals(FewBoundValues)
AllMetrics == {Metric(st, per) : st \in Statistics, per \in Periods}
FewMetrics == {Metric("Average", 300), Metric("p99", 60)}

-----------------------------------------------------------------------------
(* interval-utils: normalizeIntervals and findAlarmThresholds *)

OpenLower(steps) == {i \in 1..Len(steps) : ~IsNum(steps[i].lower)}
OpenUpper(steps) == {i \in 1..Len(steps) : ~IsNum(steps[i].upper)}

\* the boundary an interval is sorted by: lower if present, else upper
SortKey(s) == IF IsNum(s.lower) THEN s.lower.v ELSE s.upper.v

\* stable insertion of x into the sorted sequence s
RECURSIVE InsertSorted(_, _)
InsertSorted(s, x) ==
    IF s = <<>> THEN <<x>>
    ELSE IF SortKey(s[Len(s)]) <= SortKey(x) THEN Append(s, x)
    ELSE Append(InsertSorted(SubSeq(s, 1, Len(s) - 1), x), s[Len(s)])

RECURSIVE SortIntervals(_)
SortIntervals(s) ==
    IF s = <<>> THEN <<>>
    ELSE InsertSorted(SortIntervals(SubSeq(s, 1, Len(s) - 1)), s[Len(s)])

\* each missing bound is taken from the neighbour; the outer ends stay open
FillBounds(s) ==
    [i \in 1..Len(s) |->
        [lower  |-> IF ~IsNum(s[i].lower) /\ i > 1 THEN s[i - 1].upper ELSE s[i].lower,
         upper  |-> IF ~IsNum(s[i].upper) /\ i < Len(s) THEN s[i + 1].lower ELSE s[i].upper,
         change |-> s[i].change]]

Contiguous(s) ==
    \A i \in 1..(Len(s) - 1) :
        IsNum(s[i].upper) /\ IsNum(s[i + 1].lower) /\ s[i].upper = s[i + 1].lower

normalizeIntervals(steps, changesAreAbsolute) ==
    IF Cardinality(OpenLower(steps)) > 1 \/ Cardinality(OpenUpper(steps)) > 1
    THEN [error |-> "AmbiguousOpenBoundary", intervals |-> <<>>]
    ELSE LET full == FillBounds(SortIntervals(steps))
         IN  IF Contiguous(full)
             THEN [error |-> "", intervals |-> full]
             ELSE [error |-> "GapOrOverlapDetected", intervals |-> <<>>]

\* the indices (0-based) the neutral zone may be taken to be: an interval
\* whose change is 0, any interval when none is
NeutralCandidates(ivs) ==
    LET zeros == {i \in 0..(Len(ivs) - 1) : At(ivs, i).change = 0}
    IN  IF zeros # {} THEN zeros ELSE 0..(Len(ivs) - 1)

findAlarmThresholds(ivs, neutral) ==
    [lowerAlarmIntervalIndex |->
        IF neutral > 0 /\ At(ivs, neutral - 1).change # 0
        THEN Num(neutral - 1) ELSE Undefined,
     upperAlarmIntervalIndex |->
        IF neutral < Len(ivs) - 1 /\ At(ivs, neutral + 1).change # 0
        THEN Num(neutral + 1) ELSE Undefined]

-----------------------------------------------------------------------------
(* StepScalingPolicy *)

\* faulty variant: the length check off by one
TooFewIntervals_OffByOne(scalingSteps) == Len(scalingSteps) < 1

TooFewIntervals(scalingSteps) == Len(scalingSteps) < 2

\* props.adjustmentType || ChangeInCapacity, compared with ExactCapacity
ChangesAreAbsolute(adjustmentType) ==
    (IF adjustmentType = "" THEN "ChangeInCapacity" ELSE adjustmentType) = "ExactCapacity"

\* [ok, type]: ok is FALSE where the source throws
aggregationTypeFromMetric(metric) ==
    CASE metric.statistic = "Average" -> [ok |-> TRUE, type |-> "Average"]
      [] metric.statistic = "Minimum" -> [ok |-> TRUE, type |-> "Minimum"]
      [] metric.statistic = "Maximum" -> [ok |-> TRUE, type |-> "Maximum"]
      [] OTHER -> [ok |-> FALSE, type |-> ""]

\* faulty variant: the upper alarm anchored at the far side of its interval
UpperThreshold_FarSide(ivs, k) == At(ivs, k).upper

LowerThreshold(ivs, k) == At(ivs, k).upper
UpperThreshold(ivs, k) == At(ivs, k).lower

\* faulty variant: the outermost lower bound computed like the others
LowerStep_NoOverride(ivs, i, threshold) ==
    [adjustment |-> At(ivs, i).change,
     lowerBound |-> Minus(At(ivs, i).lower, threshold),
     upperBound |-> Minus(At(ivs, i).upper, threshold)]

LowerStep(ivs, i, threshold) ==
    [adjustment |-> At(ivs, i).change,
     lowerBound |-> IF i # 0 THEN Minus(At(ivs, i).lower, threshold) ELSE Undefined,
     upperBound |-> Minus(At(ivs, i).upper, threshold)]

\* faulty variant: the loop stops before index 0 (i > 0)
LowerSteps_StopEarly(ivs, k, threshold) ==
    [j \in 1..k |-> LowerStep(ivs, k + 1 - j, threshold)]

\* for (i = k; i >= 0; i--) addAdjustment(...)
LowerSteps(ivs, k, threshold) ==
    [j \in 1..(k + 1) |-> LowerStep(ivs, k + 1 - j, threshold)]

UpperStep(ivs, i, threshold) ==
    [adjustment |-> At(ivs, i).change,
     lowerBound |-> Minus(At(ivs, i).lower, threshold),
     upperBound |-> IF i # Len(ivs) - 1
                    THEN Minus(At(ivs, i).upper, threshold) ELSE Undefined]

\* for (i = k; i < intervals.length; i++) addAdjustment(...)
UpperSteps(ivs, k, threshold) ==
    [j \in 1..(Len(ivs) - k) |-> UpperStep(ivs, k + j - 1, threshold)]

StepScalingAction(id, p, aggregationType, adjustments) ==
    [id |-> id,
     adjustmentType |-> p.adjustmentType,
     metricAggregationType |-> aggregationType,
     adjustments |-> adjustments]

\* faulty variant: the alarm built on the metric as supplied
LowerAlarmOf_OwnPeriod(p, threshold, action) ==
    [id |-> "LowerAlarm",
     metric |-> p.metric,
     comparisonOperator |-> "LessThanOrEqualToThreshold",
     evaluationPeriods |-> 1,
     threshold |-> threshold,
     alarmActions |-> <<action.id>>]

LowerAlarmOf(p, threshold, action) ==
    [id |-> "LowerAlarm",
     metric |-> [p.metric EXCEPT !.periodSec = 60],
     comparisonOperator |-> "LessThanOrEqualToThreshold",
     evaluationPeriods |-> 1,
     threshold |-> threshold,
     alarmActions |-> <<action.id>>]

UpperAlarmOf(p, threshold, action) ==
    [id |-> "UpperAlarm",
     metric |-> [p.metric EXCEPT !.periodSec = 60],
     comparisonOperator |-> "GreaterThanOrEqualToThreshold",
     evaluationPeriods |-> 1,
     threshold |-> threshold,
     alarmActions |-> <<action.id>>]

\* faulty variant: the index tested for truthiness, so that index 0 counts as absent
LowerAlarmDefined_Truthy(al) ==
    al.lowerAlarmIntervalIndex # Undefined /\ al.lowerAlarmIntervalIndex.v # 0

\* alarms.lowerAlarmIntervalIndex !== undefined, alarms.upperAlarmIntervalIndex !== undefined
LowerAlarmDefined(al) == al.lowerAlarmIntervalIndex # Undefined
UpperAlarmDefined(al) == al.upperAlarmIntervalIndex # Undefined

\* the constructor's outcome as a record of the fields it leaves behind
NoAlarms == [lowerAlarmIntervalIndex |-> Undefined, upperAlarmIntervalIndex |-> Undefined]

Thrown(err, log) ==
    [phase |-> "failed", error |-> err, calls |-> log,
     intervals |-> <<>>, alarms |-> NoAlarms,
     lowerAlarm |-> None, lowerAction |-> None, upperAlarm |-> None, upperAction |-> None]

\* the lower block of the constructor (if lowerAlarmIntervalIndex !== undefined)
LowerPart(p, st) ==
    IF ~LowerAlarmDefined(st.alarms) THEN st
    ELSE LET k == st.alarms.lowerAlarmIntervalIndex.v
             threshold == LowerThreshold(st.intervals, k)
             agg == aggregationTypeFromMetric(p.metric)
             action == StepScalingAction("LowerPolicy", p, agg.type,
                                         LowerSteps(st.intervals, k, threshold))
         IN  IF ~agg.ok
             THEN [st EXCEPT !.phase = "failed", !.error = "UnsupportedStatistic"]
             ELSE [st EXCEPT !.lowerAction = Some(action),
                             !.lowerAlarm = Some(LowerAlarmOf(p, threshold, action)),
                             !.calls = st.calls \o <<"LowerPolicy", "LowerAlarm">>]

\* the upper block of the constructor; not reached when the lower block threw
UpperPart(p, st) ==
    IF st.phase = "failed" \/ ~UpperAlarmDefined(st.alarms) THEN st
    ELSE LET k == st.alarms.upperAlarmIntervalIndex.v
             threshold == UpperThreshold(st.intervals, k)
             agg == aggregationTypeFromMetric(p.metric)
             action == StepScalingAction("UpperPolicy", p, agg.type,
                                         UpperSteps(st.intervals, k, threshold))
         IN  IF ~agg.ok
             THEN [st EXCEPT !.phase = "failed", !.error = "UnsupportedStatistic"]
             ELSE [st EXCEPT !.upperAction = Some(action),
                             !.upperAlarm = Some(UpperAlarmOf(p, threshold, action)),
                             !.calls = st.calls \o <<"UpperPolicy", "UpperAlarm">>]

\* the outcomes of new StepScalingPolicy(parent, id, p): one for each neutral
\* zone findAlarmThresholds may settle on
ConstructorOutcomes(p) ==
    IF TooFewIntervals(p.scalingSteps)
    THEN {Thrown("InsufficientIntervals", <<>>)}
    ELSE LET norm == normalizeIntervals(p.scalingSteps, ChangesAreAbsolute(p.adjustmentType))
         IN  IF norm.error # ""
             THEN {Thrown(norm.error, <<"normalizeIntervals">>)}
             ELSE {UpperPart(p, LowerPart(p,
                       [phase |-> "constructed", error |-> "",
                        calls |-> <<"normalizeIntervals", "findAlarmThresholds">>,
                        intervals |-> norm.intervals,
                        alarms |-> findAlarmThresholds(norm.intervals, neutral),
                        lowerAlarm |-> None, lowerAction |-> None,
                        upperAlarm |-> None, upperAction |-> None]))
                   : neutral \in NeutralCandidates(norm.intervals)}

PolicyProps(scalingSteps, adjustmentType, metric) ==
    [scalingSteps |-> scalingSteps, adjustmentType |-> adjustmentType, metric |-> metric]

\* new StepScalingPolicy(...) with props drawn from the given domains
Construct(stepDomain, adjustmentTypes, metrics) ==
    /\ phase = "new"
    /\ \E n \in 0..MaxSteps : \E s \in [1..n -> stepDomain] :
       \E a \in adjustmentTypes, m \in metrics :
       \E out \in ConstructorOutcomes(PolicyProps(s, a, m)) :
            /\ props' = PolicyProps(s, a, m)
            /\ phase' = out.phase
            /\ error' = out.error
            /\ calls' = out.calls
            /\ intervals' = out.intervals
            /\ alarms' = out.alarms
            /\ lowerAlarm' = out.lowerAlarm
            /\ lowerAction' = out.lowerAction
            /\ upperAlarm' = out.upperAlarm
            /\ upperAction' = out.upperAction
    /\ UNCHANGED <<queueVars, apiVars>>

ConstructAnySteps == Construct(AllSteps, {"ChangeInCapacity"}, FewMetrics)
ConstructAnyMetric == Construct(FewSteps, AdjustmentTypes, AllMetrics)

InitPolicy ==
    /\ phase = "new"
    /\ props = PolicyProps(<<>>, "", Metric("Average", 60))
    /\ error = ""
    /\ calls = <<>>
    /\ intervals = <<>>
    /\ alarms = NoAlarms
    /\ lowerAlarm = None /\ lowerAction = None
    /\ upperAlarm = None /\ upperAction = None

-----------------------------------------------------------------------------
(* QueueRef *)

MaxCalls == 3

\* the queue created in the stack, and a queue brought in by QueueRef.import
Queues == {"Queue", "ImportedQueue"}
BucketIds == {"b1", "b2"}
BucketArns == {"arn:b1", "arn:b2"}

\* whether the queue has an encryptionMasterKey
encryptionMasterKey == [q \in Queues |-> q = "Queue"]

autoCreatePolicy(q) == q # "ImportedQueue"

PolicyStatement(principal, action, sourceArn) ==
    [principal |-> principal, action |-> action, sourceArn |-> sourceArn]

\* statements a caller hands to addToResourcePolicy
Statements ==
    {PolicyStatement("arn:role", "sqs:ReceiveMessage", ""),
     PolicyStatement("arn:role", "sqs:SendMessage", "")}

\* the statement asBucketNotificationDestination builds for a bucket
BucketStatement(bucketArn) == PolicyStatement("s3.amazonaws.com", "sqs:SendMessage", bucketArn)

\* faulty variant: the policy created on every call
ShouldCreatePolicy_Always(q) == autoCreatePolicy(q)

ShouldCreatePolicy(q) == policy[q] = None /\ autoCreatePolicy(q)

\* the effect of this.addToResourcePolicy(statement) on queue q
AddStatement(q, statement) ==
    LET created == ShouldCreatePolicy(q)
        pol == IF created THEN Some([statements |-> <<>>]) ELSE policy[q]
    IN  /\ policy' = [policy EXCEPT ![q] =
                        IF pol # None
                        THEN Some([statements |-> Append(pol[1].statements, statement)])
                        ELSE pol]
        /\ policiesCreated' = [policiesCreated EXCEPT ![q] = @ + (IF created THEN 1 ELSE 0)]
        /\ passed' = [passed EXCEPT ![q] = Append(@, statement)]

CallsLeft == Len(passed["Queue"]) + Len(passed["ImportedQueue"]) < MaxCalls

addToResourcePolicy(q, statement) ==
    /\ CallsLeft
    /\ AddStatement(q, statement)
    /\ UNCHANGED <<notifyingBuckets, keyStatements>>
    /\ UNCHANGED <<policyVars, apiVars>>

asBucketNotificationDestination(q, bucketArn, bucketId) ==
    /\ CallsLeft
    /\ IF bucketId \notin notifyingBuckets[q]
       THEN /\ AddStatement(q, BucketStatement(bucketArn))
            /\ keyStatements' = [keyStatements EXCEPT ![q] =
                                    IF encryptionMasterKey[q] THEN @ + 1 ELSE @]
            /\ notifyingBuckets' = [notifyingBuckets EXCEPT ![q] = @ \cup {bucketId}]
       ELSE UNCHANGED <<policy, policiesCreated, passed, keyStatements, notifyingBuckets>>
    /\ UNCHANGED <<policyVars, apiVars>>

QueueCall ==
    \E q \in Queues :
        \/ \E statement \in Statements : addToResourcePolicy(q, statement)
        \/ \E bucketArn \in BucketArns, bucketId \in BucketIds :
               asBucketNotificationDestination(q, bucketArn, bucketId)

InitQueue ==
    /\ policy = [q \in Queues |-> None]
    /\ policiesCreated = [q \in Queues |-> 0]
    /\ notifyingBuckets = [q \in Queues |-> {}]
    /\ passed = [q \in Queues |-> <<>>]
    /\ keyStatements = [q \in Queues |-> 0]

-----------------------------------------------------------------------------
(* Resource, and the RestApi of its tests *)

MaxResources == 2
MaxPartLen == 1

\* a string is the sequence of its characters
Lower == {"a","b","c","d","e","f","g","h","i","j","k","l","m",
          "n","o","p","q","r","s","t","u","v","w","x","y","z"}
Upper == {"A","B","C","D","E","F","G","H","I","J","K","L","M",
          "N","O","P","Q","R","S","T","U","V","W","X","Y","Z"}
Digit == {"0","1","2","3","4","5","6","7","8","9"}

\* the character class [a-zA-Z0-9\.\_\-]
PathChars == Lower \cup Upper \cup Digit \cup {".", "_", "-"}

startsWith(part, c) == Len(part) >= 1 /\ part[1] = c
endsWith(part, c) == Len(part) >= 1 /\ part[Len(part)] = c

\* part.substr(start, length) with the source's 0-based start
substr(part, start, length) ==
    IF length <= 0 THEN <<>>
    ELSE SubSeq(part, start + 1, IF start + length > Len(part) THEN Len(part) ELSE start + length)

StripBraces(part) ==
    IF startsWith(part, "{") /\ endsWith(part, "}")
    THEN substr(part, 1, Len(part) - 2)
    ELSE part

\* faulty variant: the pattern without its anchors
MatchesPathChars_Unanchored(part) == \E i \in 1..Len(part) : part[i] \in PathChars

\* /^[a-zA-Z0-9\.\_\-]+$/.test(part)
MatchesPathChars(part) == Len(part) >= 1 /\ \A i \in 1..Len(part) : part[i] \in PathChars

\* TRUE when the part passes, FALSE where the source throws
validateResourcePathPart(part) == MatchesPathChars(StripBraces(part))

\* the path parts of the tests, a few parts with braces in and out of place,
\* and every string up to MaxPartLen over a few characters
TestParts == {<<"f","o","o">>, <<"b","a","r">>, <<"{","h","e","l","l","o","}">>,
              <<"f","o","o","/">>}
BraceParts == {<<"{","}">>, <<"{","a","}">>, <<"{","/","}">>, <<"{","a">>, <<"a","}">>,
               <<"{","{","a","}","}">>}
PartAlphabet == {"a", "/", "{", "}"}
PathParts == TestParts \cup BraceParts \cup UNION {[1..n -> PartAlphabet] : n \in 0..MaxPartLen}

\* two RestApis: "restapi" built with autoDeploy false, "my-api" with the default
RestApis == {"restapi", "my-api"}
autoDeploy(api) == api # "restapi"

\* resource ids: an api's RootResourceId attribute, or the Ref of the n-th
\* cloudformation.Resource
RootResourceId(api) == [kind |-> "RootResourceId", api |-> api, n |-> 0]
Ref(n) == [kind |-> "Ref", api |-> "", n |-> n]

\* the objects newResource can be called on: a RestApi or the n-th Resource
ApiObject(api) == [kind |-> "RestApi", api |-> api, n |-> 0]
ResourceObject(n) == [kind |-> "Resource", api |-> "", n |-> n]
Objects == {ApiObject(api) : api \in RestApis} \cup {ResourceObject(n) : n \in 1..Len(resources)}

resourceApi(o) == IF o.kind = "RestApi" THEN o.api ELSE resources[o.n].resourceApi
resourceId(o) == IF o.kind = "RestApi" THEN RootResourceId(o.api) ELSE resources[o.n].resourceId

\* faulty variant: every resource attached to the api's root
CfnResource_UnderRoot(parent, pathPart) ==
    [restApiId |-> resourceApi(parent),
     parentId  |-> RootResourceId(resourceApi(parent)),
     pathPart  |-> pathPart]

\* the cloudformation.Resource the constructor creates
CfnResource(parent, pathPart) ==
    [restApiId |-> resourceApi(parent),
     parentId  |-> resourceId(parent),
     pathPart  |-> pathPart]

\* deployment.addDependency(resource); deployment.addToLogicalId({resource: ...})
Deployed(d, parent, pathPart, ref) ==
    IF d = None THEN d
    ELSE Some([dependencies |-> Append(d[1].dependencies, ref),
               logicalId |-> Append(d[1].logicalId,
                    [resourceId |-> resourceId(parent), pathPath |-> pathPart])])

\* new Resource(parent, pathPart, { parent, pathPart })
newResource(parent, pathPart) ==
    /\ Len(resources) < MaxResources
    /\ IF ~validateResourcePathPart(pathPart)
       THEN /\ lastCall' = Some([parent |-> parent, pathPart |-> pathPart, result |-> "error"])
            /\ UNCHANGED <<resources, cfnResources, deployment>>
       ELSE LET ref == Ref(Len(cfnResources) + 1)
                api == resourceApi(parent)
            IN  /\ cfnResources' = Append(cfnResources, CfnResource(parent, pathPart))
                /\ resources' = Append(resources,
                        [resourceId |-> ref, resourceApi |-> api, parent |-> parent])
                /\ deployment' = [deployment EXCEPT ![api] = Deployed(@, parent, pathPart, ref)]
                /\ lastCall' = Some([parent |-> parent, pathPart |-> pathPart, result |-> "ok"])
    /\ UNCHANGED <<policyVars, queueVars>>

ApiCall == \E parent \in Objects, pathPart \in PathParts : newResource(parent, pathPart)

InitApi ==
    /\ resources = <<>>
    /\ cfnResources = <<>>
    /\ deployment = [api \in RestApis |->
                        IF autoDeploy(api)
                        THEN Some([dependencies |-> <<>>, logicalId |-> <<>>])
                        ELSE None]
    /\ lastCall = None

-----------------------------------------------------------------------------
(* Specifications *)

Init == InitPolicy /\ InitQueue /\ InitApi

Next == ConstructAnySteps \/ ConstructAnyMetric \/ QueueCall \/ ApiCall

Spec == Init /\ [][Next]_vars

\* the policy over every interval list
SpecPolicy == Init /\ [][ConstructAnySteps]_vars

\* the policy over every metric and adjustment type
SpecMetric == Init /\ [][ConstructAnyMetric]_vars

SpecQueue == Init /\ [][QueueCall]_vars

SpecApi == Init /\ [][ApiCall]_vars

-----------------------------------------------------------------------------
(* Properties of StepScalingPolicy *)

Constructed == phase = "constructed"
Failed == phase = "failed"
SupportedStatistic == props.metric.statistic \in {"Average", "Minimum", "Maximum"}
NothingCreated ==
    lowerAlarm = None /\ lowerAction = None /\ upperAlarm = None /\ upperAction = None

\* C1: construction with fewer than 2 scaling intervals fails with a
\* configuration error before the intervals are normalized and before any
\* alarm or scaling action is created.
C1_TooFewIntervalsFail ==
    (phase # "new" /\ Len(props.scalingSteps) < 2) =>
        /\ Failed
        /\ error = "InsufficientIntervals"
        /\ calls = <<>>
        /\ NothingCreated

C1_Witness == Failed /\ Len(props.scalingSteps) = 1 /\ error = "InsufficientIntervals"

\* C2: with at least 2 scaling intervals, construction with a metric whose
\* statistic is not Average, Minimum or Maximum always fails, also when
\* neither alarm index is derived.
C2_UnsupportedStatisticFails ==
    (phase # "new" /\ Len(props.scalingSteps) >= 2 /\ ~SupportedStatistic) => Failed

ExampleSteps ==
    << [lower |-> Undefined, upper |-> Num(10), change |-> -1],
       [lower |-> Num(10),   upper |-> Num(50), change |-> 0],
       [lower |-> Num(50),   upper |-> Undefined, change |-> 1] >>

ExampleConstructed ==
    /\ phase # "new"
    /\ props.scalingSteps = ExampleSteps
    /\ props.adjustmentType = "ChangeInCapacity"
    /\ SupportedStatistic

\* C3: the intervals [{upper:10,change:-1},{lower:10,upper:50,change:0},
\* {lower:50,change:1}] with ChangeInCapacity (and a supported statistic) give
\* a lower alarm at index 0 with threshold 10 and the lower table
\* [{adjustment:-1, upperBound:0}], and an upper alarm at index 2 with
\* threshold 50 and the upper table [{adjustment:1, lowerBound:0}].
C3_Example ==
    ExampleConstructed =>
        /\ Constructed
        /\ alarms.lowerAlarmIntervalIndex = Num(0)
        /\ alarms.upperAlarmIntervalIndex = Num(2)
        /\ lowerAlarm # None /\ lowerAction # None
        /\ upperAlarm # None /\ upperAction # None
        /\ lowerAlarm[1].threshold = Num(10)
        /\ lowerAction[1].adjustments =
              << [adjustment |-> -1, lowerBound |-> Undefined, upperBound |-> Num(0)] >>
        /\ upperAlarm[1].threshold = Num(50)
        /\ upperAction[1].adjustments =
              << [adjustment |-> 1, lowerBound |-> Num(0), upperBound |-> Undefined] >>

C3_Witness == ExampleConstructed /\ Constructed

\* C4: in every step table produced, the outermost step (interval 0 in the
\* lower table, the last interval in the upper table) has its outward bound
\* undefined, and every other bound of the table is a number.
C4_OutermostBoundOpen ==
    /\ lowerAction # None =>
          LET t == lowerAction[1].adjustments
          IN  /\ Len(t) >= 1
              /\ t[Len(t)].lowerBound = Undefined
              /\ \A j \in 1..Len(t) : IsNum(t[j].upperBound)
              /\ \A j \in 1..(Len(t) - 1) : IsNum(t[j].lowerBound)
    /\ upperAction # None =>
          LET t == upperAction[1].adjustments
          IN  /\ Len(t) >= 1
              /\ t[Len(t)].upperBound = Undefined
              /\ \A j \in 1..Len(t) : IsNum(t[j].lowerBound)
              /\ \A j \in 1..(Len(t) - 1) : IsNum(t[j].upperBound)

\* the lower table has an inner step, and interval 0 has a numeric lower
\* bound that the table leaves out
C4_Witness ==
    /\ lowerAction # None
    /\ Len(lowerAction[1].adjustments) = 2
    /\ IsNum(At(intervals, 0).lower)

\* each interval ends where the next begins, and none ends before it begins
SortedContiguous(s) ==
    /\ \A i \in 1..(Len(s) - 1) : IsNum(s[i].upper) /\ s[i].upper = s[i + 1].lower
    /\ \A i \in 1..Len(s) : (IsNum(s[i].lower) /\ IsNum(s[i].upper)) => s[i].lower.v <= s[i].upper.v

\* C5: with lowerAlarmIntervalIndex = k, the lower threshold T is
\* intervals[k].upper and the lower table has k+1 steps for the intervals
\* k, k-1, ..., 0, each with adjustment = change, upperBound = upper - T and
\* (above index 0) lowerBound = lower - T; the first upperBound is 0 and, for
\* sorted contiguous intervals, every numeric bound is <= 0.
C5_LowerTable ==
    (Constructed /\ alarms.lowerAlarmIntervalIndex # Undefined) =>
        LET k == alarms.lowerAlarmIntervalIndex.v
            T == At(intervals, k).upper
        IN  /\ lowerAlarm # None /\ lowerAction # None
            /\ IsNum(T)
            /\ lowerAlarm[1].threshold = T
            /\ LET t == lowerAction[1].adjustments
               IN  /\ Len(t) = k + 1
                   /\ \A i \in 0..k :
                        LET step == t[k - i + 1]
                        IN  /\ step.adjustment = At(intervals, i).change
                            /\ step.upperBound = Num(At(intervals, i).upper.v - T.v)
                            /\ i > 0 => step.lowerBound = Num(At(intervals, i).lower.v - T.v)
                   /\ t[1].upperBound = Num(0)
                   /\ SortedContiguous(intervals) =>
                        \A j \in 1..Len(t) :
                            /\ IsNum(t[j].upperBound) => t[j].upperBound.v <= 0
                            /\ IsNum(t[j].lowerBound) => t[j].lowerBound.v <= 0

C5_Witness ==
    /\ Constructed
    /\ alarms.lowerAlarmIntervalIndex = Num(1)
    /\ Len(lowerAction[1].adjustments) = 2
    /\ SortedContiguous(intervals)
    /\ IsNum(At(intervals, 0).lower)

\* C6: with upperAlarmIntervalIndex = k over n intervals, the upper threshold
\* T is intervals[k].lower and the upper table has n-k steps for the intervals
\* k, k+1, ..., n-1, each with adjustment = change, lowerBound = lower - T and
\* (below index n-1) upperBound = upper - T; the first lowerBound is 0 and,
\* for sorted contiguous intervals, every numeric bound is >= 0.
C6_UpperTable ==
    (Constructed /\ alarms.upperAlarmIntervalIndex # Undefined) =>
        LET k == alarms.upperAlarmIntervalIndex.v
            n == Len(intervals)
            T == At(intervals, k).lower
        IN  /\ upperAlarm # None /\ upperAction # None
            /\ IsNum(T)
            /\ upperAlarm[1].threshold = T
            /\ LET t == upperAction[1].adjustments
               IN  /\ Len(t) = n - k
                   /\ \A i \in k..(n - 1) :
                        LET step == t[i - k + 1]
                        IN  /\ step.adjustment = At(intervals, i).change
                            /\ step.lowerBound = Num(At(intervals, i).lower.v - T.v)
                            /\ i < n - 1 => step.upperBound = Num(At(intervals, i).upper.v - T.v)
                   /\ t[1].lowerBound = Num(0)
                   /\ SortedContiguous(intervals) =>
                        \A j \in 1..Len(t) :
                            /\ IsNum(t[j].upperBound) => t[j].upperBound.v >= 0
                            /\ IsNum(t[j].lowerBound) => t[j].lowerBound.v >= 0

C6_Witness ==
    /\ Constructed
    /\ alarms.upperAlarmIntervalIndex = Num(1)
    /\ Len(intervals) = 3
    /\ Len(upperAction[1].adjustments) = 2
    /\ SortedContiguous(intervals)
    /\ IsNum(At(intervals, 2).upper)

\* C7: every alarm created has 1 evaluation period and the supplied metric
\* with its period forced to 60 seconds; the lower alarm compares with <= and
\* triggers only the lower action, the upper alarm compares with >= and
\* triggers only the upper action.
C7_AlarmConfiguration ==
    /\ lowerAlarm # None =>
          /\ lowerAlarm[1].evaluationPeriods = 1
          /\ lowerAlarm[1].metric.periodSec = 60
          /\ lowerAlarm[1].metric.statistic = props.metric.statistic
          /\ lowerAlarm[1].comparisonOperator = "LessThanOrEqualToThreshold"
          /\ lowerAction # None
          /\ lowerAction[1].id = "LowerPolicy"
          /\ lowerAlarm[1].alarmActions = <<"LowerPolicy">>
    /\ upperAlarm # None =>
          /\ upperAlarm[1].evaluationPeriods = 1
          /\ upperAlarm[1].metric.periodSec = 60
          /\ upperAlarm[1].metric.statistic = props.metric.statistic
          /\ upperAlarm[1].comparisonOperator = "GreaterThanOrEqualToThreshold"
          /\ upperAction # None
          /\ upperAction[1].id = "UpperPolicy"
          /\ upperAlarm[1].alarmActions = <<"UpperPolicy">>

C7_Witness == lowerAlarm # None /\ upperAlarm # None /\ props.metric.periodSec = 300

-----------------------------------------------------------------------------
(* Properties of QueueRef *)

\* C8: the queue created in the stack has no policy before the first
\* addToResourcePolicy call and exactly one afterwards, holding every
\* statement passed, in call order; the imported queue never has a policy.
C8_PolicyCreatedOnce ==
    /\ policiesCreated["Queue"] <= 1
    /\ passed["Queue"] = <<>> => (policy["Queue"] = None /\ policiesCreated["Queue"] = 0)
    /\ passed["Queue"] # <<>> =>
          /\ policiesCreated["Queue"] = 1
          /\ policy["Queue"] # None
          /\ policy["Queue"][1].statements = passed["Queue"]
    /\ policy["ImportedQueue"] = None
    /\ policiesCreated["ImportedQueue"] = 0

C8_Witness ==
    /\ Len(passed["Queue"]) >= 2
    /\ Len(passed["ImportedQueue"]) >= 1
    /\ passed["Queue"][1] # passed["Queue"][2]

-----------------------------------------------------------------------------
(* Properties of Resource *)

Foo == <<"f","o","o">>
Hello == <<"{","h","e","l","l","o","}">>
FooSlash == <<"f","o","o","/">>

\* the path part without one pair of enclosing curly braces
Unbraced(part) ==
    IF Len(part) >= 2 /\ part[1] = "{" /\ part[Len(part)] = "}"
    THEN [i \in 1..(Len(part) - 2) |-> part[i + 1]]
    ELSE part

Rejected(part) ==
    \/ Unbraced(part) = <<>>
    \/ \E i \in 1..Len(Unbraced(part)) :
          Unbraced(part)[i] \notin (Lower \cup Upper \cup Digit \cup {".", "_", "-"})

\* C9: creating a Resource fails, with no cloudformation.Resource created and
\* the deployment untouched, whenever the path part without its enclosing
\* braces is empty or has a character outside a-z A-Z 0-9 . _ -, so for any
\* part containing "/"; "foo" and "{hello}" are accepted.
C9_PathPartValidated ==
    [][ lastCall' # None =>
          LET call == lastCall'[1]
          IN  /\ (Rejected(call.pathPart) \/ \E i \in 1..Len(call.pathPart) : call.pathPart[i] = "/") =>
                    /\ call.result = "error"
                    /\ UNCHANGED <<resources, cfnResources, deployment>>
              /\ call.pathPart \in {Foo, Hello} => call.result = "ok" ]_vars

C9_Witness ==
    /\ lastCall # None
    /\ lastCall[1].pathPart = FooSlash
    /\ lastCall[1].result = "error"
    /\ Len(cfnResources) >= 1
    /\ deployment["my-api"][1].dependencies # <<>>

\* the api at the root of the i-th resource, following the objects newResource was called on
RECURSIVE RootApi(_)
RootApi(i) ==
    IF resources[i].parent.kind = "RestApi" THEN resources[i].parent.api
    ELSE RootApi(resources[i].parent.n)

\* the indices of the resources below api, in creation order
RECURSIVE Below(_, _)
Below(api, n) ==
    IF n = 0 THEN <<>>
    ELSE IF RootApi(n) = api THEN Append(Below(api, n - 1), n) ELSE Below(api, n - 1)

\* C10: the resources form a tree: each one's parentId is the resourceId of
\* the object newResource was called on, each one's resourceApi is the RestApi
\* at its root; an api with a latestDeployment has every resource below it as
\* a dependency and in its logical-id input, an api without one has none.
C10_ResourceTree ==
    /\ Len(cfnResources) = Len(resources)
    /\ \A i \in 1..Len(resources) :
          LET on == resources[i].parent
          IN  /\ resources[i].resourceId = Ref(i)
              /\ on.kind = "Resource" => on.n < i
              /\ cfnResources[i].parentId =
                    (IF on.kind = "RestApi" THEN RootResourceId(on.api)
                     ELSE resources[on.n].resourceId)
              /\ resources[i].resourceApi = RootApi(i)
              /\ cfnResources[i].restApiId = RootApi(i)
    /\ deployment["restapi"] = None
    /\ deployment["my-api"] # None
    /\ LET below == Below("my-api", Len(resources))
           d == deployment["my-api"][1]
       IN  /\ d.dependencies = [j \in 1..Len(below) |-> Ref(below[j])]
           /\ d.logicalId = [j \in 1..Len(below) |->
                                [resourceId |-> cfnResources[below[j]].parentId,
                                 pathPath |-> cfnResources[below[j]].pathPart]]

C10_Witness ==
    /\ Len(resources) = 2
    /\ resources[2].parent = ResourceObject(1)
    /\ resources[2].resourceApi = "my-api"
    /\ cfnResources[2].pathPart = Hello

====
